---- MODULE Spec2Model ----
(***************************************************************************)
(* Book Finder (src/src/App.jsx): the state of the App component, its      *)
(* event handlers and the completions of the fetches it issues.            *)
(*                                                                         *)
(* Encoding of JavaScript values:                                          *)
(*   - a string typed by the user is a sequence of one-character strings   *)
(*     (so that trim and parseInt are computed, not assumed);              *)
(*   - a catalog key "/works/OL<n>W" is the number n;                      *)
(*   - `undefined` is Undefined for number-valued fields (key, __id,       *)
(*     first_publish_year, numFound) and NoTitle for the title;            *)
(*   - `null` for the detail modal is the empty sequence.                  *)
(***************************************************************************)
EXTENDS Integers, Sequences, FiniteSets, TLC

VARIABLES mode, query, docs, numFound, apiPage, loading, error,
          uiPage, sort, lang, yearFrom, yearTo, showFav, selected,
          favs, store, inflight, submitted

vars == <<mode, query, docs, numFound, apiPage, loading, error,
          uiPage, sort, lang, yearFrom, yearTo, showFav, selected,
          favs, store, inflight, submitted>>

(* submitted is a history variable: the mode and the trimmed query of the  *)
(* most recently submitted search, <<>> before the first one.  The program *)
(* does not read it.                                                       *)
searchVars == <<mode, query, docs, numFound, apiPage, loading, error, inflight,
                submitted>>
viewVars == <<uiPage, sort, lang, yearFrom, yearTo>>
favVars == <<showFav, selected, favs, store>>

----------------------------------------------------------------------------
(* Bounds of the model *)

MaxInflight == 2
MaxApiPage == 2
MaxBatch == 2
MaxFavs == 2
MaxAccumulated == 3

(* Program constants *)

PER_PAGE == 20

Undefined == -1
NoTitle == "<undefined>"

----------------------------------------------------------------------------
(* Values *)

Max(a, b) == IF a >= b THEN a ELSE b
Min(a, b) == IF a <= b THEN a ELSE b

SeqsUpTo(S, n) == UNION {[1..k -> S] : k \in 0..n}

Modes == {"title", "author", "isbn", "subject", "all"}

Sorts == {"relevance", "title", "year-asc", "year-desc"}

RECURSIVE trimStart(_)
trimStart(s) ==
  IF s # <<>> /\ Head(s) = " " THEN trimStart(Tail(s)) ELSE s

RECURSIVE trimEnd(_)
trimEnd(s) ==
  IF s # <<>> /\ s[Len(s)] = " " THEN trimEnd(SubSeq(s, 1, Len(s) - 1)) ELSE s

trim(s) == trimEnd(trimStart(s))

(* A record of a response body, as the API sends it. *)
ApiDoc(k, t, y, l) ==
  [key |-> k, title |-> t, first_publish_year |-> y, language |-> l]

docA == ApiDoc(1, "A", 1940, <<"eng">>)
docA2 == ApiDoc(1, "B", 1999, <<"fre">>)
docB == ApiDoc(2, "B", 1955, <<"eng", "fre">>)
docC == ApiDoc(3, "A", 1999, <<>>)
docNoKey == ApiDoc(Undefined, NoTitle, Undefined, <<>>)

----------------------------------------------------------------------------
(* Pure functions *)

RECURSIVE uniqueByFrom(_, _, _, _)
uniqueByFrom(arr, key, i, seen) ==
  IF i > Len(arr) THEN <<>>
  ELSE IF arr[i][key] \in seen
       THEN uniqueByFrom(arr, key, i + 1, seen)
       ELSE <<arr[i]>> \o uniqueByFrom(arr, key, i + 1, seen \cup {arr[i][key]})

(* No deduplication *)
uniqueByNone(arr, key) == arr

(* The last occurrence of a key kept, instead of the first *)
uniqueByLast(arr, key) ==
  LET keep == {i \in 1..Len(arr) : \A j \in (i + 1)..Len(arr) : arr[j][key] # arr[i][key]}
      RECURSIVE pick(_)
      pick(i) == IF i > Len(arr) THEN <<>>
                 ELSE IF i \in keep THEN <<arr[i]>> \o pick(i + 1) ELSE pick(i + 1)
  IN pick(1)

uniqueBy(arr, key) == uniqueByFrom(arr, key, 1, {})

buildSearchURL(m, q, p) ==
  [param |-> IF m = "title" THEN "title"
             ELSE IF m = "author" THEN "author"
             ELSE IF m = "isbn" THEN "isbn"
             ELSE IF m = "subject" THEN "subject"
             ELSE "q",
   value |-> q,
   page |-> p,
   limit |-> 100]

(* (data.docs || []).map((d) => ({ ...d, __id: d.key })) *)
withId(d) ==
  [__id |-> d.key, key |-> d.key, title |-> d.title,
   first_publish_year |-> d.first_publish_year, language |-> d.language]

newDocsOf(data) == [i \in 1..Len(data.docs) |-> withId(data.docs[i])]

(* data.numFound ?? newDocs.length *)
numFoundOfNullish(data) ==
  IF data.numFound # Undefined THEN data.numFound ELSE Len(data.docs)

(* data.numFound || newDocs.length *)
numFoundOf(data) ==
  IF data.numFound # Undefined /\ data.numFound # 0
  THEN data.numFound
  ELSE Len(data.docs)

(* err?.message, without the default *)
errorMessageRaw(msg) == msg

(* err?.message || 'Something went wrong' *)
errorMessage(msg) == IF msg # "" THEN msg ELSE "Something went wrong"

Range(s) == {s[i] : i \in 1..Len(s)}

(* x[f] on an object that may not have the property *)
Field(x, f) ==
  IF f \in DOMAIN x THEN x[f]
  ELSE IF f = "title" THEN NoTitle ELSE Undefined

isUndefined(x, f) ==
  IF f = "title" THEN x[f] = NoTitle ELSE x[f] = Undefined

(* The reduced projection toggleFav stores (author_name, cover_i and isbn  *)
(* are copied the same way and are not modelled).                          *)
favOf(doc) ==
  [__id |-> Field(doc, "__id"),
   key |-> Field(doc, "key"),
   title |-> Field(doc, "title"),
   first_publish_year |-> Field(doc, "first_publish_year")]

(* JSON.stringify of the favorites list: the text is modelled as, for each *)
(* entry, the set of its "name": value members; a property whose value is  *)
(* undefined is not written.                                               *)
JSONstringify(val) ==
  [i \in 1..Len(val) |->
     {<<f, val[i][f]>> : f \in {g \in DOMAIN val[i] : ~isUndefined(val[i], g)}}]

JSONparse(raw) ==
  [i \in 1..Len(raw) |->
     [f \in {m[1] : m \in raw[i]} |-> (CHOOSE m \in raw[i] : m[1] = f)[2]]]

Digits == <<"0", "1", "2", "3", "4", "5", "6", "7", "8", "9">>

isDigit(c) == \E d \in 1..Len(Digits) : Digits[d] = c

digitValue(c) == (CHOOSE d \in 1..Len(Digits) : Digits[d] = c) - 1

NaN == -2

RECURSIVE parseDigits(_, _)
parseDigits(s, acc) ==
  IF s # <<>> /\ isDigit(Head(s))
  THEN parseDigits(Tail(s), acc * 10 + digitValue(Head(s)))
  ELSE acc

(* parseInt(s, 10) for a string without sign: the leading digits, NaN when *)
(* there is none.                                                          *)
parseInt(s) ==
  LET t == trimStart(s)
  IN IF t # <<>> /\ isDigit(Head(t)) THEN parseDigits(t, 0) ELSE NaN

(* a.localeCompare(b) on the titles of the model: "" before "A" before "B" *)
titleRank(t) == CASE t = "" -> 0 [] t = "A" -> 1 [] t = "B" -> 2 [] OTHER -> 3

localeCompare(a, b) == titleRank(a) - titleRank(b)

titleOrEmpty(d) == IF d.title # NoTitle THEN d.title ELSE ""

yearOrZero(d) ==
  IF d.first_publish_year # Undefined /\ d.first_publish_year # 0
  THEN d.first_publish_year
  ELSE 0

compareBy(s, a, b) ==
  CASE s = "title" -> localeCompare(titleOrEmpty(a), titleOrEmpty(b))
    [] s = "year-asc" -> yearOrZero(a) - yearOrZero(b)
    [] s = "year-desc" -> yearOrZero(b) - yearOrZero(a)
    [] OTHER -> 0

(* Array.prototype.sort is stable: x goes after every element that does    *)
(* not compare greater than it.                                            *)
RECURSIVE insertSorted(_, _, _)
insertSorted(s, out, x) ==
  IF out # <<>> /\ compareBy(s, Head(out), x) <= 0
  THEN <<Head(out)>> \o insertSorted(s, Tail(out), x)
  ELSE <<x>> \o out

RECURSIVE sortFrom(_, _, _, _)
sortFrom(s, arr, i, out) ==
  IF i > Len(arr) THEN out
  ELSE sortFrom(s, arr, i + 1, insertSorted(s, out, arr[i]))

sorted(s, arr) == sortFrom(s, arr, 1, <<>>)

passLang(c, d) == c \in Range(d.language)

(* y >= yf && y < yt *)
passYearExclusive(yf, yt, d) == yearOrZero(d) >= yf /\ yearOrZero(d) < yt

passYear(yf, yt, d) == yearOrZero(d) >= yf /\ yearOrZero(d) <= yt

filteredOf(ds, l, from, to, s) ==
  LET yf == parseInt(IF from # <<>> THEN from ELSE <<"0">>)
      yt == parseInt(IF to # <<>> THEN to ELSE <<"9", "9", "9", "9">>)
      out1 == IF l # "" THEN SelectSeq(ds, LAMBDA d : passLang(l, d)) ELSE ds
      out2 == SelectSeq(out1, LAMBDA d : yf # NaN /\ yt # NaN /\ passYear(yf, yt, d))
  IN IF s \in {"title", "year-asc", "year-desc"} THEN sorted(s, out2) ELSE out2

filtered == filteredOf(docs, lang, yearFrom, yearTo, sort)

ceilDiv(n, d) == (n + d - 1) \div d

totalPagesOf(n) == Max(1, ceilDiv(n, PER_PAGE))

totalPages == totalPagesOf(Len(filtered))

pageDocs ==
  LET start == (uiPage - 1) * PER_PAGE
  IN SubSeq(filtered, start + 1, Min(Len(filtered), start + PER_PAGE))

readStore(initial) == IF store = <<>> THEN initial ELSE JSONparse(store[1])

----------------------------------------------------------------------------
(* Initial state: the first render in a browser whose store has no entry   *)
(* under the key; the mount effect has then written the initial list, or   *)
(* failed to (the store stays without the entry).                          *)

Init ==
  /\ mode = "title"
  /\ query = <<>>
  /\ docs = <<>>
  /\ numFound = 0
  /\ apiPage = 1
  /\ loading = FALSE
  /\ error = ""
  /\ uiPage = 1
  /\ sort = "relevance"
  /\ lang = ""
  /\ yearFrom = <<>>
  /\ yearTo = <<>>
  /\ showFav = FALSE
  /\ selected = <<>>
  /\ favs = <<>>
  /\ store \in {<<>>, <<JSONstringify(<<>>)>>}
  /\ inflight = <<>>
  /\ submitted = <<>>

----------------------------------------------------------------------------
(* Search form *)

SetMode(m) ==
  /\ mode' = m
  /\ UNCHANGED <<query, docs, numFound, apiPage, loading, error, inflight,
                 submitted>>
  /\ UNCHANGED viewVars
  /\ UNCHANGED favVars

SetQuery(q) ==
  /\ query' = q
  /\ UNCHANGED <<mode, docs, numFound, apiPage, loading, error, inflight,
                 submitted>>
  /\ UNCHANGED viewVars
  /\ UNCHANGED favVars

(* resetResults without setUiPage(1) *)
resetResultsKeepUiPage ==
  /\ docs' = <<>>
  /\ numFound' = 0
  /\ apiPage' = 1
  /\ uiPage' = uiPage
  /\ error' = ""

resetResults ==
  /\ docs' = <<>>
  /\ numFound' = 0
  /\ apiPage' = 1
  /\ uiPage' = 1
  /\ error' = ""

(* The synchronous part of fetchPage(p): the request is built and sent.    *)
(* `by` and `before` record the handler that issued the request and the    *)
(* accumulated list as it was when that handler started.                   *)
fetchPage(p, by, before) ==
  /\ Len(inflight) < MaxInflight
  /\ inflight' = Append(inflight,
                        [url |-> buildSearchURL(mode, trim(query), p),
                         p |-> p, by |-> by, before |-> before])
  /\ loading' = TRUE
  /\ error' = ""

HandleSearch ==
  \/ /\ trim(query) = <<>>
     /\ UNCHANGED vars
  \/ /\ trim(query) # <<>>
     /\ resetResults
     /\ fetchPage(1, "search", docs)
     /\ submitted' = <<[mode |-> mode, query |-> trim(query)]>>
     /\ UNCHANGED <<mode, query, sort, lang, yearFrom, yearTo>>
     /\ UNCHANGED favVars

(* The button is rendered when docs is non-empty and disabled while loading *)
LoadMore ==
  /\ Len(docs) > 0
  /\ ~loading
  /\ apiPage + 1 <= MaxApiPage
  /\ fetchPage(apiPage + 1, "loadMore", docs)
  /\ UNCHANGED <<mode, query, docs, numFound, apiPage, submitted>>
  /\ UNCHANGED viewVars
  /\ UNCHANGED favVars

Without(s, i) == SubSeq(s, 1, i - 1) \o SubSeq(s, i + 1, Len(s))

(* The continuation of fetchPage after a response with res.ok and a body   *)
(* that parses to data.                                                    *)
FetchOk(i, data) ==
  /\ i \in 1..Len(inflight)
  /\ inflight' = Without(inflight, i)
  /\ numFound' = numFoundOf(data)
  /\ apiPage' = inflight[i].p
  /\ loading' = FALSE
  /\ docs' = uniqueBy(docs \o newDocsOf(data), "__id")
  /\ UNCHANGED <<mode, query, error, submitted>>
  /\ UNCHANGED viewVars
  /\ UNCHANGED favVars

(* The catch branch of fetchPage: msg is the message of what was thrown    *)
(* ("" when it carries none).                                              *)
FetchFail(i, msg) ==
  /\ i \in 1..Len(inflight)
  /\ inflight' = Without(inflight, i)
  /\ error' = errorMessage(msg)
  /\ loading' = FALSE
  /\ UNCHANGED <<mode, query, docs, numFound, apiPage, submitted>>
  /\ UNCHANGED viewVars
  /\ UNCHANGED favVars

----------------------------------------------------------------------------
(* Filters, sort and local pagination *)

(* docs.forEach((d) => (d.language || []).forEach((c) => set.add(c))) *)
languagesAvailable == UNION {Range(docs[i].language) : i \in 1..Len(docs)}

(* The language handler without setUiPage(1) *)
SetLangKeepPage(c) ==
  /\ c \in {""} \cup languagesAvailable
  /\ lang' = c
  /\ UNCHANGED <<uiPage, sort, yearFrom, yearTo>>
  /\ UNCHANGED searchVars
  /\ UNCHANGED favVars

SetLang(c) ==
  /\ c \in {""} \cup languagesAvailable
  /\ lang' = c
  /\ uiPage' = 1
  /\ UNCHANGED <<sort, yearFrom, yearTo>>
  /\ UNCHANGED searchVars
  /\ UNCHANGED favVars

SetYearFrom(s) ==
  /\ yearFrom' = s
  /\ uiPage' = 1
  /\ UNCHANGED <<sort, lang, yearTo>>
  /\ UNCHANGED searchVars
  /\ UNCHANGED favVars

SetYearTo(s) ==
  /\ yearTo' = s
  /\ uiPage' = 1
  /\ UNCHANGED <<sort, lang, yearFrom>>
  /\ UNCHANGED searchVars
  /\ UNCHANGED favVars

SetSort(s) ==
  /\ sort' = s
  /\ uiPage' = 1
  /\ UNCHANGED <<lang, yearFrom, yearTo>>
  /\ UNCHANGED searchVars
  /\ UNCHANGED favVars

(* The pagination row is rendered when docs is non-empty; Previous is      *)
(* disabled on page 1, Next on the last page.                              *)
Previous ==
  /\ Len(docs) > 0
  /\ uiPage # 1
  /\ uiPage' = Max(1, uiPage - 1)
  /\ UNCHANGED <<sort, lang, yearFrom, yearTo>>
  /\ UNCHANGED searchVars
  /\ UNCHANGED favVars

NextPage ==
  /\ Len(docs) > 0
  /\ ~(uiPage >= totalPages)
  /\ uiPage' = Min(totalPages, uiPage + 1)
  /\ UNCHANGED <<sort, lang, yearFrom, yearTo>>
  /\ UNCHANGED searchVars
  /\ UNCHANGED favVars

----------------------------------------------------------------------------
(* Favorites, detail modal, drawer *)

(* The effect writes the list of the render before the change *)
writeStoreStale(val) ==
  \/ store' = <<JSONstringify(favs)>>
  \/ store' = store

(* useEffect(() => localStorage.setItem(key, JSON.stringify(val))): runs   *)
(* after the render that follows a change of val; setItem may throw, which *)
(* is ignored and leaves the store as it was.                              *)
writeStore(val) ==
  \/ store' = <<JSONstringify(val)>>
  \/ store' = store

setFavs(val) ==
  /\ favs' = val
  /\ writeStore(val)

(* toggleFav without the lookup of an existing entry *)
toggleFavNoCheck(doc) ==
  /\ Len(favs) < MaxFavs
  /\ setFavs(Append(favs, favOf(doc)))

(* The favorites drawer shows the new entry first *)
toggledFront(list, doc) ==
  LET id == Field(doc, "__id")
      exists == \E i \in 1..Len(list) : Field(list[i], "__id") = id
  IN IF exists
     THEN SelectSeq(list, LAMBDA x : Field(x, "__id") # id)
     ELSE <<favOf(doc)>> \o list

(* The list toggleFav(doc) hands to setFavs when favs is `list` *)
toggled(list, doc) ==
  LET id == Field(doc, "__id")
      exists == \E i \in 1..Len(list) : Field(list[i], "__id") = id
  IN IF exists
     THEN SelectSeq(list, LAMBDA x : Field(x, "__id") # id)
     ELSE Append(list, favOf(doc))

toggleFav(doc) ==
  /\ Len(toggled(favs, doc)) <= MaxFavs
  /\ setFavs(toggled(favs, doc))

ToggleFavCard(doc) ==
  /\ doc \in Range(pageDocs)
  /\ toggleFav(doc)
  /\ UNCHANGED <<showFav, selected>>
  /\ UNCHANGED searchVars
  /\ UNCHANGED viewVars

ToggleFavModal ==
  /\ selected # <<>>
  /\ toggleFav(selected[1])
  /\ UNCHANGED <<showFav, selected>>
  /\ UNCHANGED searchVars
  /\ UNCHANGED viewVars

(* Remove in the favorites drawer *)
RemoveFav(i) ==
  /\ showFav
  /\ i \in 1..Len(favs)
  /\ setFavs(SelectSeq(favs, LAMBDA x : Field(x, "__id") # Field(favs[i], "__id")))
  /\ UNCHANGED <<showFav, selected>>
  /\ UNCHANGED searchVars
  /\ UNCHANGED viewVars

ToggleShowFav ==
  /\ showFav' = ~showFav
  /\ UNCHANGED <<selected, favs, store>>
  /\ UNCHANGED searchVars
  /\ UNCHANGED viewVars

Select(doc) ==
  /\ doc \in Range(pageDocs)
  /\ selected' = <<doc>>
  /\ UNCHANGED <<showFav, favs, store>>
  /\ UNCHANGED searchVars
  /\ UNCHANGED viewVars

CloseSelected ==
  /\ selected # <<>>
  /\ selected' = <<>>
  /\ UNCHANGED <<showFav, favs, store>>
  /\ UNCHANGED searchVars
  /\ UNCHANGED viewVars

(* The page is loaded again: every useState starts over, favs is read from *)
(* the store, and the mount effect writes it back.  Responses to requests  *)
(* of the page that was left are never delivered.                          *)
Reload ==
  /\ mode' = "title"
  /\ query' = <<>>
  /\ docs' = <<>>
  /\ numFound' = 0
  /\ apiPage' = 1
  /\ loading' = FALSE
  /\ error' = ""
  /\ uiPage' = 1
  /\ sort' = "relevance"
  /\ lang' = ""
  /\ yearFrom' = <<>>
  /\ yearTo' = <<>>
  /\ showFav' = FALSE
  /\ selected' = <<>>
  /\ inflight' = <<>>
  /\ submitted' = <<>>
  /\ setFavs(readStore(<<>>))

----------------------------------------------------------------------------
(* Inputs of the environment.  Each specification below drives one group   *)
(* of controls with the inputs its properties are about, and leaves the    *)
(* other controls untouched; Spec drives all of them.                      *)

Queries == {<<" ">>, <<"a", " ">>}

(* Records that repeat a key, or have none *)
ClashDocs == {docA, docA2, docNoKey}

SmallDocs == {docA, docA2, docB, docNoKey}

Bodies(D, n, NF) == {[docs |-> b, numFound |-> nf] : b \in SeqsUpTo(D, n), nf \in NF}

Thrown == {"HTTP 500", "Unexpected token < in JSON at position 0", ""}

(* A page of PER_PAGE + 1 records, enough for a second local page *)
catalogDoc(i) ==
  ApiDoc(100 + i,
         IF i % 2 = 0 THEN "A" ELSE "B",
         IF i % 3 = 0 THEN 1950 ELSE IF i % 3 = 1 THEN 1960 ELSE Undefined,
         IF i % 2 = 0 THEN <<"eng">> ELSE <<"eng", "fre">>)

catalogPage == [i \in 1..(PER_PAGE + 1) |-> catalogDoc(i)]

ViewBodies == {[docs |-> catalogPage, numFound |-> 50],
               [docs |-> <<docA, docB>>, numFound |-> Undefined]}

y1950 == <<"1", "9", "5", "0">>
y1960 == <<"1", "9", "6", "0">>
y1999 == <<"1", "9", "9", "9">>

YearInputs == {<<>>, y1950, y1960, y1999}

(* The first render in a browser whose store accepts the write *)
InitStored == Init /\ store # <<>>

(* Pages of at most one record *)
FetchBodies == {[docs |-> <<>>, numFound |-> Undefined],
                [docs |-> <<docA>>, numFound |-> 7],
                [docs |-> <<docB>>, numFound |-> 7]}

NextFetch ==
  \/ \E q \in Queries : SetQuery(q)
  \/ HandleSearch
  \/ LoadMore
  \/ \E i \in 1..MaxInflight, data \in FetchBodies : FetchOk(i, data)
  \/ \E i \in 1..MaxInflight, msg \in Thrown : FetchFail(i, msg)

SpecFetch == InitStored /\ [][NextFetch]_vars

MergeBodies == Bodies(SmallDocs, MaxBatch, {Undefined, 0, 7})

NextMerge ==
  \/ SetQuery(<<"a">>)
  \/ HandleSearch
  \/ LoadMore
  \/ \E i \in 1..MaxInflight, data \in Bodies(ClashDocs, MaxBatch, {Undefined}) :
       FetchOk(i, data)
  \/ \E i \in 1..MaxInflight : FetchFail(i, "HTTP 500")

SpecMerge == InitStored /\ [][NextMerge]_vars

(* The merge applied to a list accumulated earlier: the state is the one    *)
(* after Load more was clicked on a list of records of SmallDocs, or after *)
(* a search was submitted (the list is then empty).                        *)
Accumulated(D) ==
  {uniqueBy(newDocsOf([docs |-> b]), "__id") : b \in SeqsUpTo(D, MaxAccumulated)}

InitApply ==
  /\ mode = "title"
  /\ query = <<"a">>
  /\ docs \in Accumulated(SmallDocs)
  /\ numFound = IF docs = <<>> THEN 0 ELSE 7
  /\ apiPage = 1
  /\ loading = TRUE
  /\ error = ""
  /\ uiPage = 1
  /\ sort = "relevance"
  /\ lang = ""
  /\ yearFrom = <<>>
  /\ yearTo = <<>>
  /\ showFav = FALSE
  /\ selected = <<>>
  /\ favs = <<>>
  /\ store = <<JSONstringify(<<>>)>>
  /\ inflight = <<[url |-> buildSearchURL(mode, trim(query), IF docs = <<>> THEN 1 ELSE 2),
                   p |-> IF docs = <<>> THEN 1 ELSE 2,
                   by |-> IF docs = <<>> THEN "search" ELSE "loadMore",
                   before |-> docs]>>
  /\ submitted = <<[mode |-> mode, query |-> trim(query)]>>

NextApply ==
  \/ LoadMore
  \/ \E i \in 1..MaxInflight, data \in MergeBodies : FetchOk(i, data)

SpecApply == InitApply /\ [][NextApply]_vars

(* The filters and sort orders applied to a list accumulated earlier: the   *)
(* state is the one after the responses to a search have been merged.      *)
InitFilter ==
  /\ mode = "title"
  /\ query = <<"a">>
  /\ docs \in Accumulated(SmallDocs \cup {docC})
  /\ numFound = Len(docs)
  /\ apiPage = 1
  /\ loading = FALSE
  /\ error = ""
  /\ uiPage = 1
  /\ sort = "relevance"
  /\ lang = ""
  /\ yearFrom = <<>>
  /\ yearTo = <<>>
  /\ showFav = FALSE
  /\ selected = <<>>
  /\ favs = <<>>
  /\ store = <<JSONstringify(<<>>)>>
  /\ inflight = <<>>
  /\ submitted = <<[mode |-> mode, query |-> trim(query)]>>

NextFilter ==
  \/ \E c \in {"", "eng", "fre"} : SetLang(c)
  \/ \E s \in YearInputs : SetYearFrom(s)
  \/ \E s \in YearInputs : SetYearTo(s)
  \/ \E s \in Sorts : SetSort(s)

SpecFilter == InitFilter /\ [][NextFilter]_vars

NextView ==
  \/ SetQuery(<<"a">>)
  \/ HandleSearch
  \/ LoadMore
  \/ \E i \in 1..MaxInflight, data \in ViewBodies : FetchOk(i, data)
  \/ \E i \in 1..MaxInflight : FetchFail(i, "HTTP 500")
  \/ \E c \in {"", "eng", "fre"} : SetLang(c)
  \/ \E s \in {<<>>, y1950} : SetYearFrom(s)
  \/ \E s \in {<<>>, y1960} : SetYearTo(s)
  \/ \E s \in {"relevance", "title"} : SetSort(s)
  \/ Previous
  \/ NextPage

SpecView == InitStored /\ [][NextView]_vars

FavBodies == {[docs |-> <<docA, docNoKey>>, numFound |-> 2],
              [docs |-> <<docA2>>, numFound |-> 2]}

NextFav ==
  \/ SetQuery(<<"a">>)
  \/ HandleSearch
  \/ \E i \in 1..MaxInflight, data \in FavBodies : FetchOk(i, data)
  \/ \E d \in Range(docs) : ToggleFavCard(d)
  \/ ToggleFavModal
  \/ \E i \in 1..MaxFavs : RemoveFav(i)
  \/ ToggleShowFav
  \/ \E d \in Range(docs) : Select(d)
  \/ CloseSelected
  \/ Reload

SpecFav == Init /\ [][NextFav]_vars

(* Favorites kept while a result list of two local pages is searched again, *)
(* extended, filtered, sorted and paged: the state is the one after the    *)
(* response to a search has been merged; the user toggles two of the       *)
(* cards, when they are on the page shown, and waits for the response      *)
(* before submitting again.                                                *)
InitPersist ==
  /\ mode = "title"
  /\ query = <<"a">>
  /\ docs = uniqueBy(newDocsOf([docs |-> catalogPage]), "__id")
  /\ numFound = 50
  /\ apiPage = 1
  /\ loading = FALSE
  /\ error = ""
  /\ uiPage = 1
  /\ sort = "relevance"
  /\ lang = ""
  /\ yearFrom = <<>>
  /\ yearTo = <<>>
  /\ showFav = FALSE
  /\ selected = <<>>
  /\ favs = <<>>
  /\ store = <<JSONstringify(<<>>)>>
  /\ inflight = <<>>
  /\ submitted = <<[mode |-> mode, query |-> trim(query)]>>

(* Two records of the list, one without year, one on the second local page *)
TwoCards == {docs[k] : k \in {2, PER_PAGE + 1} \cap (1..Len(docs))}

NextPersist ==
  \/ \E q \in {<<>>, <<"a">>} : SetQuery(q)
  \/ ~loading /\ HandleSearch
  \/ LoadMore
  \/ \E i \in 1..Len(inflight) : FetchOk(i, [docs |-> catalogPage, numFound |-> 50])
  \/ \E c \in {"", "fre"} : SetLang(c)
  \/ \E s \in {"relevance", "title"} : SetSort(s)
  \/ Previous
  \/ NextPage
  \/ \E d \in TwoCards : ToggleFavCard(d)
  \/ \E i \in 1..MaxFavs : RemoveFav(i)
  \/ ToggleShowFav

SpecPersist == InitPersist /\ [][NextPersist]_vars

(* A session of a user who waits for the response before submitting again, *)
(* with a catalog that answers each request with the one record of that    *)
(* parameter, query and page: the key of a record tells the request that   *)
(* returned it.                                                            *)
SessionQueries == {<<"a">>, <<" ", "b">>}

catalogKey(url) ==
  (IF url.param = "title" THEN 100 ELSE 200)
  + (IF url.value = <<"a">> THEN 10 ELSE 20)
  + url.page

served(url) ==
  [docs |-> <<ApiDoc(catalogKey(url), "A", 1950, <<"eng">>)>>, numFound |-> 7]

NextSession ==
  \/ \E m \in {"title", "all"} : SetMode(m)
  \/ \E q \in SessionQueries : SetQuery(q)
  \/ ~loading /\ HandleSearch
  \/ LoadMore
  \/ \E i \in 1..Len(inflight) : FetchOk(i, served(inflight[i].url))
  \/ \E i \in 1..Len(inflight) : FetchFail(i, "HTTP 500")

SpecSession == InitStored /\ [][NextSession]_vars

Next ==
  \/ \E m \in Modes : SetMode(m)
  \/ \E q \in Queries \cup {<<>>, <<"a">>} : SetQuery(q)
  \/ HandleSearch
  \/ LoadMore
  \/ \E i \in 1..MaxInflight,
        data \in MergeBodies \cup ViewBodies :
       FetchOk(i, data)
  \/ \E i \in 1..MaxInflight, msg \in Thrown : FetchFail(i, msg)
  \/ \E c \in {"", "eng", "fre"} : SetLang(c)
  \/ \E s \in YearInputs : SetYearFrom(s)
  \/ \E s \in YearInputs : SetYearTo(s)
  \/ \E s \in Sorts : SetSort(s)
  \/ Previous
  \/ NextPage
  \/ \E d \in Range(docs) : ToggleFavCard(d)
  \/ ToggleFavModal
  \/ \E i \in 1..MaxFavs : RemoveFav(i)
  \/ ToggleShowFav
  \/ \E d \in Range(docs) : Select(d)
  \/ CloseSelected
  \/ Reload

Spec == Init /\ [][Next]_vars

----------------------------------------------------------------------------
(* Properties *)

RECURSIVE IsSubseq(_, _)
IsSubseq(a, b) ==
  IF a = <<>> THEN TRUE
  ELSE IF b = <<>> THEN FALSE
  ELSE IF Head(a) = Head(b) THEN IsSubseq(Tail(a), Tail(b))
  ELSE IsSubseq(a, Tail(b))

HasId(ds, id) == \E k \in 1..Len(ds) : ds[k].__id = id

(* The step issues a request from handleSearch *)
SearchIssued ==
  /\ Len(inflight') = Len(inflight) + 1
  /\ inflight'[Len(inflight')].by = "search"

(* C1: at most one fetch is outstanding in every reachable state. *)
C1_AtMostOneFetch == Len(inflight) <= 1

(* C2: the accumulated list never holds two records with the same __id. *)
C2_NoDuplicateIds ==
  \A i, j \in 1..Len(docs) : i # j => docs[i].__id # docs[j].__id

(* A response with two records without key was merged into one record. *)
C2_Witness ==
  /\ numFound = 2
  /\ Len(docs) = 1
  /\ docs[1].__id = Undefined

(* C3 as stated: when a fetch fails, the error message is non-empty and    *)
(* every record that was in the list before the handler that issued the    *)
(* fetch is still in the list, in the same order.                          *)
C3_PriorRecordsKept ==
  [][\A i \in 1..MaxInflight, msg \in Thrown :
       FetchFail(i, msg) => error' # "" /\ IsSubseq(inflight[i].before, docs')]_vars

(* C3 amended: when a fetch fails, the error message is non-empty and the  *)
(* accumulated list is left exactly as it was just before the failure.     *)
C3_FailureKeepsList ==
  [][\A i \in 1..MaxInflight, msg \in Thrown :
       FetchFail(i, msg) => error' # "" /\ docs' = docs]_vars

(* A load more has failed: the message is shown beside the retained list. *)
C3_Witness ==
  /\ error # ""
  /\ Len(docs) > 0
  /\ inflight = <<>>
  /\ ~loading

(* C4: a submission with a non-blank query leaves, before its fetch        *)
(* resolves, docs empty, numFound 0, apiPage 1, uiPage 1 and error empty.  *)
C4_SearchResets ==
  [][SearchIssued =>
       /\ trim(query) # <<>>
       /\ docs' = <<>>
       /\ numFound' = 0
       /\ apiPage' = 1
       /\ uiPage' = 1
       /\ error' = ""]_vars

(* A search was submitted from the second local page of a loaded list. *)
C4_Witness ==
  /\ inflight # <<>>
  /\ inflight[Len(inflight)].by = "search"
  /\ Len(inflight[Len(inflight)].before) > PER_PAGE
  /\ docs = <<>>
  /\ uiPage = 1
  /\ loading

(* C5: no request is ever built with a query that is empty after trim. *)
C5_NoBlankRequest ==
  \A i \in 1..Len(inflight) : inflight[i].url.value # <<>>

RECURSIVE decimal(_)
decimal(s) ==
  IF s = <<>> THEN 0 ELSE 10 * decimal(SubSeq(s, 1, Len(s) - 1)) + digitValue(s[Len(s)])

(* The two predicates of the filter, as section 4.3 of the spec states     *)
(* them: the language list contains the selected code, or none is          *)
(* selected; the year, 0 if absent, is in [from or 0, to or 9999].         *)
Passes(d, l, from, to) ==
  LET yf == IF from = <<>> THEN 0 ELSE decimal(from)
      yt == IF to = <<>> THEN 9999 ELSE decimal(to)
      year == IF d.first_publish_year = Undefined THEN 0 ELSE d.first_publish_year
  IN /\ l = "" \/ \E k \in 1..Len(d.language) : d.language[k] = l
     /\ yf <= year
     /\ year <= yt

FilteredCount(ds, l, from, to) ==
  Cardinality({k \in 1..Len(ds) : Passes(ds[k], l, from, to)})

(* C6 as stated: uiPage is within [1, ceil(filtered-count / PER_PAGE)]. *)
C6_WithinCeil ==
  /\ uiPage >= 1
  /\ uiPage <= (FilteredCount(docs, lang, yearFrom, yearTo) + PER_PAGE - 1) \div PER_PAGE

(* C6 amended: uiPage is within [1, max(1, ceil(filtered-count /           *)
(* PER_PAGE))] in every state, and a change of lang, yearFrom, yearTo or   *)
(* sort sets it to 1.                                                      *)
C6_PageInRange ==
  [][LET count == FilteredCount(docs', lang', yearFrom', yearTo')
     IN /\ (lang' # lang \/ yearFrom' # yearFrom \/ yearTo' # yearTo \/ sort' # sort)
             => uiPage' = 1
        /\ uiPage' >= 1
        /\ uiPage' > 1 => uiPage' <= (count + PER_PAGE - 1) \div PER_PAGE]_vars

(* The second local page, under a language filter. *)
C6_Witness ==
  /\ uiPage = 2
  /\ lang = "eng"
  /\ sort = "title"
  /\ Len(filtered) > PER_PAGE

(* C7: a merge yields the existing list followed by the records of the     *)
(* batch whose identifier is neither in the existing list nor earlier in   *)
(* the batch, in batch order.                                              *)
C7_MergeFirstWins ==
  [][\A i \in 1..MaxInflight, data \in MergeBodies :
       FetchOk(i, data) =>
         LET batch == newDocsOf(data)
             fresh == {k \in 1..Len(batch) :
                         /\ ~HasId(docs, batch[k].__id)
                         /\ \A j \in 1..(k - 1) : batch[j].__id # batch[k].__id}
         IN /\ SubSeq(docs', 1, Len(docs)) = docs
            /\ Len(docs') = Len(docs) + Cardinality(fresh)
            /\ \A k \in fresh :
                 docs'[Len(docs) + Cardinality({j \in fresh : j <= k})] = batch[k]]_vars

(* [{1},{2}] merged with [{2},{no key}]: three records, the first kept. *)
C7_Witness ==
  /\ docs = <<withId(docA), withId(docB), withId(docNoKey)>>
  /\ apiPage = 2
  /\ numFound = 2

(* C8 as stated: numFound is the response's field whenever it is present,  *)
(* 0 included; when absent, the number of records the merge added.         *)
C8_MergedCountFallback ==
  [][\A i \in 1..MaxInflight, data \in MergeBodies :
       FetchOk(i, data) =>
         numFound' = IF data.numFound # Undefined
                     THEN data.numFound
                     ELSE Len(docs') - Len(docs)]_vars

(* C8 amended: numFound is the response's field when it is present and not *)
(* 0; when it is absent or 0, the number of records of the response,       *)
(* before deduplication.                                                   *)
C8_BatchCountFallback ==
  [][\A i \in 1..MaxInflight, data \in MergeBodies :
       FetchOk(i, data) =>
         /\ data.numFound \notin {Undefined, 0} => numFound' = data.numFound
         /\ data.numFound \in {Undefined, 0} => numFound' = Len(data.docs)]_vars

(* A response of two records, one of them already accumulated. *)
C8_Witness ==
  /\ numFound = 2
  /\ Len(docs) = 2
  /\ apiPage = 2
  /\ docs[1].__id = 1

(* C9: the filtered list holds exactly the records whose language list     *)
(* contains lang (or lang is not set) and whose year (0 when absent) is in *)
(* [yearFrom or 0, yearTo or 9999]; under relevance, in accumulation order.*)
C9_FilterExact ==
  LET pass(d) == Passes(d, lang, yearFrom, yearTo)
      shown == filtered
      kept == Range(shown)
  IN /\ \A k \in 1..Len(docs) : pass(docs[k]) <=> docs[k] \in kept
     /\ Len(shown) = Cardinality({k \in 1..Len(docs) : pass(docs[k])})
     /\ sort = "relevance" => shown = SelectSeq(docs, pass)

(* Years 1940, 1955, 1999 under the filter [1950, 1960]: only 1955 passes. *)
C9_Witness ==
  /\ docs = <<withId(docA), withId(docB), withId(docC)>>
  /\ yearFrom = y1950
  /\ yearTo = y1960
  /\ filtered = <<withId(docB)>>

ToggleStep(d) ==
  \/ ToggleFavCard(d)
  \/ selected = <<d>> /\ ToggleFavModal

IsFavIn(list, d) ==
  \E i \in 1..Len(list) : Field(list[i], "__id") = Field(d, "__id")

(* C11 as stated: toggling a record twice in a row returns the favorites   *)
(* list to what it was, whether or not the record was a favorite.          *)
C11_ToggleTwiceRestores ==
  [][\A d \in Range(docs) \cup Range(selected) :
       ToggleStep(d) => toggled(favs', d) = favs]_vars

(* C11: toggling a record that was not a favorite twice in a row returns   *)
(* the favorites list to what it was; toggling one that was a favorite     *)
(* twice leaves the other entries in their order, followed by the          *)
(* projection of the record toggled.                                       *)
C11_ToggleTwice ==
  [][\A d \in Range(docs) \cup Range(selected) :
       ToggleStep(d) =>
         IF IsFavIn(favs, d)
         THEN toggled(favs', d) =
                SelectSeq(favs, LAMBDA x : Field(x, "__id") # Field(d, "__id"))
                \o <<favOf(d)>>
         ELSE toggled(favs', d) = favs]_vars

(* A favorite stored from one record was toggled twice from another record *)
(* of the same key: it now comes last, with the fields of the latter.      *)
C11_Witness ==
  /\ docs = <<withId(docA2)>>
  /\ favs = <<favOf(withId(docNoKey)), favOf(withId(docA2))>>

FavFields == {"__id", "key", "title", "first_publish_year"}

(* Two lists whose entries read the same: a property that is missing reads *)
(* as undefined.                                                           *)
SameEntries(a, b) ==
  /\ Len(a) = Len(b)
  /\ \A i \in 1..Len(a), f \in FavFields : Field(a[i], f) = Field(b[i], f)

(* The step is a toggle or a Remove in the drawer *)
MutationStep ==
  \/ \E i \in 1..Len(favs) : RemoveFav(i)
  \/ \E d \in Range(pageDocs) \cup Range(selected) : ToggleStep(d)

(* C12: only a toggle, a drawer remove or the load of the page changes the *)
(* favorites list or the store, so no step of the search form, the result  *)
(* list, the filters, the sort or the paging does; a step that changes the *)
(* list either writes it, after which the store holds the serialized list  *)
(* and reads back as the current list, or the write throws and the store   *)
(* stays as it was while the list keeps its new value.                     *)
C12_FavsPersisted ==
  [][(favs' # favs \/ store' # store) =>
       /\ \/ /\ store' = <<JSONstringify(favs')>>
             /\ SameEntries(JSONparse(store'[1]), favs')
          \/ store' = store
       /\ MutationStep \/ Reload]_vars

(* Two favorites written to the store, on the second local page; one has   *)
(* no year, which is not in the stored text.                               *)
C12_Witness ==
  /\ showFav
  /\ uiPage = 2
  /\ Len(favs) = 2
  /\ store = <<JSONstringify(favs)>>
  /\ \E i \in 1..Len(favs) :
       /\ favs[i].first_publish_year = Undefined
       /\ "first_publish_year" \notin {m[1] : m \in store[1][i]}

(* C13: when the response to a search request arrives after another fetch  *)
(* has completed while that request was outstanding (the list, emptied     *)
(* when the latest search was submitted, holds records again), the list    *)
(* afterwards holds the records of the arriving response only, and the     *)
(* loading flag is false.                                                  *)
C13_LastWriteWins ==
  [][\A i \in 1..Len(inflight), data \in FetchBodies :
       (inflight[i].by = "search" /\ docs # <<>> /\ FetchOk(i, data)) =>
         /\ docs' = uniqueBy(newDocsOf(data), "__id")
         /\ loading' = FALSE]_vars

(* C14: every record of the accumulated list was returned by a request     *)
(* built from the mode and trimmed query of the most recently submitted    *)
(* search, and the API page number is the page of the last response merged *)
(* into the list.                                                          *)
C14_ListOfSubmittedSearch ==
  /\ \A k \in 1..Len(docs) :
       /\ submitted # <<>>
       /\ \E p \in 1..MaxApiPage :
            docs[k].key =
              catalogKey(buildSearchURL(submitted[1].mode, submitted[1].query, p))
  /\ docs # <<>> => apiPage = docs[Len(docs)].key % 10

====
